---- MODULE Spec2Model ----
(***************************************************************************)
(* scripts/import-pdmx.py: conversion of one parsed MusicXML score into a  *)
(* Song document (convert_file and the functions it calls).                *)
(*                                                                         *)
(* Beats are Python floats in the program.  The model draws offsets and    *)
(* durations from whole numbers of quarter notes, for which float          *)
(* addition and comparison are exact, so they are kept as integers.  The   *)
(* two estimators divide and multiply; those operations are carried out on *)
(* an explicit IEEE-754 binary64 representation (Double below) with        *)
(* round-to-nearest-even, as CPython does.                                 *)
(***************************************************************************)
EXTENDS Integers, Sequences, FiniteSets, TLC

\* Bound of the model: number of elements in the flattened score stream.
MaxElems == 3

\* Program constants.
MinNotes == 4
BarsPerSection == 16
DefaultTempo == 120
DefaultBeatsPerBar == 4

\* Python None as a function result, and the state before an assignment
None == [type |-> "None"]
Unbound == [type |-> "unbound"]

Max(a, b) == IF a >= b THEN a ELSE b
Min(a, b) == IF a <= b THEN a ELSE b

(***************************************************************************)
(* IEEE-754 binary64 arithmetic on positive values.                        *)
(* A Double is zero, or [m, e] with value m * 2^(e - 52), where the        *)
(* 53-bit significand m is held as five base-2^13 limbs, least significant *)
(* first, and the top limb is 1 (bit 52).                                  *)
(***************************************************************************)
Limb == 8192

RECURSIVE Pow2(_)
Pow2(k) == IF k = 0 THEN 1 ELSE 2 * Pow2(k - 1)

DZero == [zero |-> TRUE, m |-> <<0, 0, 0, 0, 0>>, e |-> 0]

\* floor(log2(a / b)) for a, b > 0
RECURSIVE ExpUp(_, _, _)
ExpUp(a, b, e) == IF 2 * b <= a THEN ExpUp(a, 2 * b, e + 1) ELSE e
RECURSIVE ExpDown(_, _, _)
ExpDown(a, b, e) == IF a < b THEN ExpDown(2 * a, b, e - 1) ELSE e
Log2Floor(a, b) == IF a >= b THEN ExpUp(a, b, 0) ELSE ExpDown(a, b, 0)

\* significand + 1, renormalised when it reaches 2^53
RECURSIVE IncLimbs(_, _)
IncLimbs(m, i) ==
    IF i > Len(m) THEN m
    ELSE IF m[i] + 1 < Limb THEN [m EXCEPT ![i] = m[i] + 1]
    ELSE IncLimbs([m EXCEPT ![i] = 0], i + 1)

RoundUp(m, e) ==
    LET m1 == IF m[5] = 1 /\ m[4] = Limb - 1 /\ m[3] = Limb - 1
                 /\ m[2] = Limb - 1 /\ m[1] = Limb - 1
              THEN <<0, 0, 0, 0, 2>> ELSE IncLimbs(m, 1)
    IN IF m1[5] = 2
       THEN [zero |-> FALSE, m |-> <<0, 0, 0, 0, 1>>, e |-> e + 1]
       ELSE [zero |-> FALSE, m |-> m1, e |-> e]

\* a / b for integers a >= 0, b > 0, correctly rounded (Python true division)
DDiv(a, b) ==
    IF a = 0 THEN DZero
    ELSE
    LET e  == Log2Floor(a, b)
        A  == IF e < 0 THEN a * Pow2(-e) ELSE a
        B  == IF e > 0 THEN b * Pow2(e) ELSE b
        r0 == A - B
        d1 == (r0 * Limb) \div B
        r1 == (r0 * Limb) % B
        d2 == (r1 * Limb) \div B
        r2 == (r1 * Limb) % B
        d3 == (r2 * Limb) \div B
        r3 == (r2 * Limb) % B
        d4 == (r3 * Limb) \div B
        r4 == (r3 * Limb) % B
        m  == <<d4, d3, d2, d1, 1>>
    IN IF 2 * r4 > B \/ (2 * r4 = B /\ d4 % 2 = 1)
       THEN RoundUp(m, e)
       ELSE [zero |-> FALSE, m |-> m, e |-> e]

DFromInt(k) == DDiv(k, 1)

\* column c (0-based) of the schoolbook product of two limb sequences
RECURSIVE Column(_, _, _, _)
Column(x, y, c, i) ==
    IF i > 5 THEN 0
    ELSE (IF c + 2 - i >= 1 /\ c + 2 - i <= 5 THEN x[i] * y[c + 2 - i] ELSE 0)
         + Column(x, y, c, i + 1)

RECURSIVE Carry(_, _, _, _)
Carry(x, y, c, carry) ==
    IF c > 8 THEN <<carry>>
    ELSE LET s == Column(x, y, c, 1) + carry
         IN <<s % Limb>> \o Carry(x, y, c + 1, s \div Limb)

\* x * y, correctly rounded
DMul(x, y) ==
    IF x.zero \/ y.zero THEN DZero
    ELSE
    LET p    == Carry(x.m, y.m, 0, 0)     \* 10 limbs, p[10] = 0, p[9] in 1..3
        low0 == p[1] = 0 /\ p[2] = 0 /\ p[3] = 0
    IN IF p[9] < 2
       THEN \* product in [2^104, 2^105): drop 52 bits
            LET m == <<p[5], p[6], p[7], p[8], p[9]>>
                half == Limb \div 2
                up == p[4] > half \/ (p[4] = half /\ ~low0)
                      \/ (p[4] = half /\ low0 /\ m[1] % 2 = 1)
            IN IF up THEN RoundUp(m, x.e + y.e)
               ELSE [zero |-> FALSE, m |-> m, e |-> x.e + y.e]
       ELSE \* product in [2^105, 2^106): drop 53 bits
            LET h == Limb \div 2
                m == <<(p[5] \div 2) + (p[6] % 2) * h,
                       (p[6] \div 2) + (p[7] % 2) * h,
                       (p[7] \div 2) + (p[8] % 2) * h,
                       (p[8] \div 2) + (p[9] % 2) * h,
                       p[9] \div 2>>
                b == p[5] % 2
                rest0 == low0 /\ p[4] = 0
                up == b = 1 /\ (~rest0 \/ m[1] % 2 = 1)
            IN IF up THEN RoundUp(m, x.e + y.e + 1)
               ELSE [zero |-> FALSE, m |-> m, e |-> x.e + y.e + 1]

\* x < y
RECURSIVE LimbsLess(_, _, _)
LimbsLess(a, b, i) ==
    IF i = 0 THEN FALSE
    ELSE IF a[i] # b[i] THEN a[i] < b[i]
    ELSE LimbsLess(a, b, i - 1)

DLess(x, y) ==
    IF y.zero THEN FALSE
    ELSE IF x.zero THEN TRUE
    ELSE IF x.e # y.e THEN x.e < y.e
    ELSE LimbsLess(x.m, y.m, 5)

\* int(x): truncation toward zero, for values below 2^26
DTrunc(x) ==
    IF x.zero \/ x.e < 0 THEN 0
    ELSE LET s == 52 - x.e
             q == s \div 13
             r == s % 13
             top == IF q = 4 THEN x.m[5]
                    ELSE IF q = 3 THEN x.m[4] + x.m[5] * Limb
                    ELSE x.m[3] + x.m[4] * Limb + x.m[5] * Limb * Limb
         IN top \div Pow2(r)


(***************************************************************************)
(* Inputs: what music21.converter.parse can hand to convert_file.          *)
(***************************************************************************)
\* Offsets and durations are in quarter notes.  A chord lists its pitches in
\* file order, which need not be ascending.
Offsets == {0, 10, 122}
NoteShapes == {[kind |-> "note", pitches |-> <<60>>],
               [kind |-> "chord", pitches |-> <<67, 64>>]}
ScoreElements ==
    {[kind |-> sh.kind, pitches |-> sh.pitches, offset |-> o, quarterLength |-> 1] :
        sh \in NoteShapes, o \in Offsets}
    \cup {[kind |-> "note", pitches |-> <<60>>, offset |-> 122, quarterLength |-> 4]}
    \cup {[kind |-> "rest", pitches |-> <<>>, offset |-> 4, quarterLength |-> 1]}
ElementStreams == UNION {[1..n -> ScoreElements] : n \in 0..MaxElems}
\* getElementsByClass results: the marks found in the score, in order
MetronomeMarks == {<<>>, <<60>>, <<110>>}
TimeSignatures == {<<>>, <<[numerator |-> 2, denominator |-> 4]>>}
KeySignatures == {<<>>}
Basename == "fur-elise"

VARIABLES pc, score, notes, tempo, time_sig, key_sig, difficulty,
          sections, current_notes, section_start, section_idx, idx, result

vars == <<pc, score, notes, tempo, time_sig, key_sig, difficulty,
          sections, current_notes, section_start, section_idx, idx, result>>

(***************************************************************************)
(* Metadata extraction                                                     *)
(***************************************************************************)
extract_key_signature(sc) ==
    LET keys == sc.keySignatures
    IN IF keys # <<>> THEN keys[1] ELSE "C"

extract_time_signature(sc) ==
    LET ts_list == sc.timeSignatures
    IN IF ts_list # <<>> THEN <<ts_list[1].numerator, ts_list[1].denominator>>
       ELSE <<DefaultBeatsPerBar, 4>>

extract_tempo(sc) ==
    LET tempos == sc.metronomeMarks
    IN IF tempos # <<>> THEN tempos[1] ELSE DefaultTempo

(***************************************************************************)
(* score_to_note_events                                                    *)
(***************************************************************************)
NoteEvent(pitch, element) ==
    [note |-> pitch, startBeat |-> element.offset,
     durationBeats |-> element.quarterLength]

RECURSIVE ChordEvents(_, _)
ChordEvents(element, j) ==
    IF j > Len(element.pitches) THEN <<>>
    ELSE <<NoteEvent(element.pitches[j], element)>> \o ChordEvents(element, j + 1)

ElementEvents(element) ==
    IF element.kind = "note" THEN <<NoteEvent(element.pitches[1], element)>>
    ELSE IF element.kind = "chord" THEN ChordEvents(element, 1)
    ELSE <<>>

RECURSIVE FlatEvents(_)
FlatEvents(elements) ==
    IF elements = <<>> THEN <<>>
    ELSE ElementEvents(Head(elements)) \o FlatEvents(Tail(elements))

\* sort key (startBeat, note): a sorts strictly before b
KeyLessOnlyBeat(a, b) == a.startBeat < b.startBeat
KeyLess(a, b) ==
    a.startBeat < b.startBeat \/ (a.startBeat = b.startBeat /\ a.note < b.note)

\* list.sort is stable: an event goes after every event whose key is not greater
RECURSIVE InsertStable(_, _)
InsertStable(sorted, n) ==
    IF sorted = <<>> THEN <<n>>
    ELSE IF KeyLess(n, Head(sorted)) THEN <<n>> \o sorted
    ELSE <<Head(sorted)>> \o InsertStable(Tail(sorted), n)

RECURSIVE SortEvents(_, _)
SortEvents(sorted, rest) ==
    IF rest = <<>> THEN sorted
    ELSE SortEvents(InsertStable(sorted, Head(rest)), Tail(rest))

score_to_note_events(sc) == SortEvents(<<>>, FlatEvents(sc.elements))

(***************************************************************************)
(* estimate_difficulty, estimate_duration                                  *)
(***************************************************************************)
RECURSIVE LastBeat(_)
LastBeat(ns) ==
    IF Len(ns) = 1 THEN ns[1].startBeat + ns[1].durationBeats
    ELSE Max(ns[1].startBeat + ns[1].durationBeats, LastBeat(Tail(ns)))

estimate_difficulty(ns, t) ==
    IF ns = <<>> THEN 1
    ELSE LET last_beat == LastBeat(ns)
             density == DDiv(Len(ns), Max(last_beat, 1))
             score_ == DMul(density, DDiv(t, 120))
         IN IF DLess(score_, DDiv(1, 2)) THEN 1
            ELSE IF DLess(score_, DFromInt(1)) THEN 2
            ELSE IF DLess(score_, DFromInt(2)) THEN 3
            ELSE IF DLess(score_, DFromInt(3)) THEN 4
            ELSE 5

estimate_duration_nofloor(ns, t) ==
    IF ns = <<>> THEN 60
    ELSE DTrunc(DMul(DDiv(LastBeat(ns), t), DFromInt(60)))
estimate_duration_rounding(ns, t) ==
    IF ns = <<>> THEN 60
    ELSE Max((120 * LastBeat(ns) + t) \div (2 * t), 10)
estimate_duration(ns, t) ==
    IF ns = <<>> THEN 60
    ELSE LET last == LastBeat(ns)
         IN Max(DTrunc(DMul(DDiv(last, t), DFromInt(60))), 10)

(***************************************************************************)
(* split_into_sections                                                     *)
(***************************************************************************)
beats_per_section(beats_per_bar) == beats_per_bar * BarsPerSection

ShouldCloseAnyBuffer(note, start, bps, buf) == note.startBeat >= start + bps
ShouldClose(note, start, bps, buf) ==
    note.startBeat >= start + bps /\ buf # <<>>

ClosedSectionStartAtEnd(k, start, bps, buf) ==
    [id |-> "section-" \o ToString(k),
     label |-> "Section " \o ToString(k + 1),
     startBeat |-> start + bps,
     endBeat |-> start + bps,
     difficulty |-> 3,
     layers |-> [melody |-> buf, full |-> buf]]
ClosedSection(k, start, bps, buf) ==
    [id |-> "section-" \o ToString(k),
     label |-> "Section " \o ToString(k + 1),
     startBeat |-> start,
     endBeat |-> start + bps,
     difficulty |-> 3,
     layers |-> [melody |-> buf, full |-> buf]]

NextSectionStartOfNote(start, bps, note) == (note.startBeat \div bps) * bps
NextSectionStart(start, bps, note) == start + bps

BufferPrepend(buf, note) == <<note>> \o buf
BufferAppend(buf, note) == Append(buf, note)

FinalSection(k, start, buf) ==
    LET last == buf[Len(buf)]
    IN [id |-> "section-" \o ToString(k),
        label |-> "Section " \o ToString(k + 1),
        startBeat |-> start,
        endBeat |-> last.startBeat + last.durationBeats,
        difficulty |-> 3,
        layers |-> [melody |-> buf, full |-> buf]]

(***************************************************************************)
(* convert_file                                                            *)
(***************************************************************************)
TooFewLoose(ns) == Len(ns) < MinNotes - 1
TooFew(ns) == Len(ns) < MinNotes

SongDocument ==
    [id |-> "pdmx-" \o Basename,
     version |-> 1,
     type |-> "song",
     source |-> "pdmx",
     metadata |-> [title |-> IF score.title # "" THEN score.title ELSE "Fur Elise",
                   artist |-> IF score.composer # "" THEN score.composer ELSE "Classical",
                   genre |-> "classical",
                   difficulty |-> difficulty,
                   durationSeconds |-> estimate_duration(notes, tempo),
                   attribution |-> "Piano-MIDI.de corpus"],
     sections |-> sections,
     settings |-> [tempo |-> tempo,
                   timeSignature |-> time_sig,
                   keySignature |-> key_sig,
                   countIn |-> 4,
                   metronomeEnabled |-> TRUE,
                   loopEnabled |-> TRUE],
     scoring |-> [timingToleranceMs |-> 50,
                  timingGracePeriodMs |-> 150,
                  passingScore |-> 70,
                  starThresholds |-> <<70, 85, 95>>]]

Init ==
    /\ pc = "parse"
    /\ score = Unbound
    /\ notes = <<>>
    /\ tempo = 0
    /\ time_sig = <<0, 0>>
    /\ key_sig = ""
    /\ difficulty = 0
    /\ sections = <<>>
    /\ current_notes = <<>>
    /\ section_start = 0
    /\ section_idx = 0
    /\ idx = 0
    /\ result = Unbound

\* music21.converter.parse succeeds
Parse ==
    /\ pc = "parse"
    /\ \E els \in ElementStreams, mm \in MetronomeMarks, ts \in TimeSignatures,
          ks \in KeySignatures :
          score' = [type |-> "score", elements |-> els, metronomeMarks |-> mm,
                    timeSignatures |-> ts, keySignatures |-> ks,
                    title |-> "", composer |-> ""]
    /\ pc' = "extract"
    /\ UNCHANGED <<notes, tempo, time_sig, key_sig, difficulty, sections,
                   current_notes, section_start, section_idx, idx, result>>

\* music21.converter.parse raises
ParseError ==
    /\ pc = "parse"
    /\ result' = None
    /\ pc' = "done"
    /\ UNCHANGED <<score, notes, tempo, time_sig, key_sig, difficulty, sections,
                   current_notes, section_start, section_idx, idx>>

ExtractNotes ==
    /\ pc = "extract"
    /\ notes' = score_to_note_events(score)
    /\ pc' = "count"
    /\ UNCHANGED <<score, tempo, time_sig, key_sig, difficulty, sections,
                   current_notes, section_start, section_idx, idx, result>>

SkipTooFew ==
    /\ pc = "count"
    /\ TooFew(notes)
    /\ result' = None
    /\ pc' = "done"
    /\ UNCHANGED <<score, notes, tempo, time_sig, key_sig, difficulty, sections,
                   current_notes, section_start, section_idx, idx>>

ExtractMetadata ==
    /\ pc = "count"
    /\ ~TooFew(notes)
    /\ tempo' = extract_tempo(score)
    /\ time_sig' = extract_time_signature(score)
    /\ key_sig' = extract_key_signature(score)
    /\ difficulty' = Min(5, Max(1, estimate_difficulty(notes, tempo')))
    /\ pc' = "split"
    /\ UNCHANGED <<score, notes, sections, current_notes, section_start,
                   section_idx, idx, result>>

\* split_into_sections up to the loop
SplitEnter ==
    /\ pc = "split"
    /\ sections' = <<>>
    /\ current_notes' = <<>>
    /\ section_start' = 0
    /\ section_idx' = 0
    /\ idx' = 1
    /\ pc' = IF notes = <<>> THEN "assemble" ELSE "loop"
    /\ UNCHANGED <<score, notes, tempo, time_sig, key_sig, difficulty, result>>

\* one iteration of "for note in notes"
SplitNote ==
    /\ pc = "loop"
    /\ idx <= Len(notes)
    /\ LET note == notes[idx]
           bps == beats_per_section(time_sig[1])
       IN IF ShouldClose(note, section_start, bps, current_notes)
          THEN /\ sections' = Append(sections,
                       ClosedSection(section_idx, section_start, bps, current_notes))
               /\ section_start' = NextSectionStart(section_start, bps, note)
               /\ current_notes' = BufferAppend(<<>>, note)
               /\ section_idx' = section_idx + 1
          ELSE /\ current_notes' = BufferAppend(current_notes, note)
               /\ UNCHANGED <<sections, section_start, section_idx>>
    /\ idx' = idx + 1
    /\ UNCHANGED <<pc, score, notes, tempo, time_sig, key_sig, difficulty, result>>

\* the final section and the return
SplitFinal ==
    /\ pc = "loop"
    /\ idx > Len(notes)
    /\ sections' = IF current_notes # <<>>
                   THEN Append(sections,
                            FinalSection(section_idx, section_start, current_notes))
                   ELSE sections
    /\ pc' = "assemble"
    /\ UNCHANGED <<score, notes, tempo, time_sig, key_sig, difficulty,
                   current_notes, section_start, section_idx, idx, result>>

Assemble ==
    /\ pc = "assemble"
    /\ result' = IF sections = <<>> THEN None ELSE SongDocument
    /\ pc' = "done"
    /\ UNCHANGED <<score, notes, tempo, time_sig, key_sig, difficulty, sections,
                   current_notes, section_start, section_idx, idx>>

Next ==
    \/ Parse
    \/ ParseError
    \/ ExtractNotes
    \/ SkipTooFew
    \/ ExtractMetadata
    \/ SplitEnter
    \/ SplitNote
    \/ SplitFinal
    \/ Assemble

Spec == Init /\ [][Next]_vars

(***************************************************************************)
(* Properties                                                              *)
(***************************************************************************)
Accepted == pc = "done" /\ result.type = "song"
Parsed == score.type = "score"

RECURSIVE SetMax(_)
SetMax(S) == LET x == CHOOSE y \in S : TRUE
             IN IF S = {x} THEN x ELSE Max(x, SetMax(S \ {x}))
NoteEnds(ns) == {ns[i].startBeat + ns[i].durationBeats : i \in DOMAIN ns}

DocumentKeys == {"id", "version", "type", "source", "metadata", "sections",
                 "settings", "scoring"}
IsCompleteDocument(d) == DOMAIN d = DocumentKeys /\ d.sections # <<>>

\* C1: a score that parses yields no document when fewer than 4 note events
\* were extracted and a complete document (all eight top-level fields, sections
\* non-empty) otherwise; at no point is the result anything but unset, None or
\* a complete document.
ConvertAllOrNothing ==
    /\ result \in {Unbound, None} \/ IsCompleteDocument(result)
    /\ (pc = "done" /\ Parsed) =>
          IF Len(notes) < 4 THEN result = None ELSE IsCompleteDocument(result)

FourNotesAccepted == Accepted /\ Len(notes) = 4

\* C2: for every accepted file the sections list is non-empty, the first
\* section starts at beat 0 and startBeat never decreases along the list.
SectionStartsAscendFromZero ==
    Accepted =>
        LET S == result.sections
        IN /\ S # <<>>
           /\ S[1].startBeat = 0
           /\ \A i \in 1..(Len(S) - 1) : S[i].startBeat <= S[i + 1].startBeat

ThreeSectionsAccepted == Accepted /\ Len(result.sections) >= 3

\* C3: for every accepted file the final section's endBeat is the maximum of
\* startBeat + durationBeats over the notes of that final section.
FinalEndBeatIsMaxNoteEnd ==
    Accepted =>
        LET S == result.sections
            f == S[Len(S)]
        IN f.endBeat = SetMax(NoteEnds(f.layers.full))

\* C4: for every accepted file metadata.difficulty is one of 1..5 and
\* metadata.durationSeconds is an integer >= 10.
DifficultyAndDurationInRange ==
    Accepted =>
        /\ result.metadata.difficulty \in 1..5
        /\ result.metadata.durationSeconds \in Nat
        /\ result.metadata.durationSeconds >= 10

ShortDenseSongAccepted ==
    /\ Accepted
    /\ result.metadata.difficulty = 5
    /\ result.metadata.durationSeconds = 10
    /\ 6 * SetMax(NoteEnds(notes)) < tempo

\* round(p / q) as Python rounds: to nearest, ties to even
RoundHalfEven(p, q) ==
    LET f == p \div q
        r == p % q
    IN IF 2 * r > q \/ (2 * r = q /\ f % 2 = 1) THEN f + 1 ELSE f

\* C5 as stated: durationSeconds = max(round(lastBeat / tempo * 60), 10).
DurationIsRounded ==
    Accepted =>
        result.metadata.durationSeconds =
            Max(RoundHalfEven(60 * SetMax(NoteEnds(notes)), tempo), 10)

\* C5 amended: durationSeconds = max(int(lastBeat / tempo * 60), 10), the
\* double-precision product truncated toward zero: floor(lastBeat * 60 / tempo),
\* or one less than it where lastBeat * 60 / tempo is a whole number that the
\* rounded quotient lastBeat / tempo falls short of.
DurationIsTruncated ==
    Accepted =>
        LET p == 60 * SetMax(NoteEnds(notes))
            f == p \div tempo
        IN IF p % tempo = 0
           THEN result.metadata.durationSeconds \in {Max(f, 10), Max(f - 1, 10)}
           ELSE result.metadata.durationSeconds = Max(f, 10)

TruncationBelowRounding ==
    /\ Accepted
    /\ result.metadata.durationSeconds > 10
    /\ 2 * ((60 * SetMax(NoteEnds(notes))) % tempo) > tempo

\* C6: in every section, closed inside the loop or closed as the final one,
\* layers.melody and layers.full are the same non-empty note sequence.
LayersIdenticalNonEmpty ==
    \A i \in DOMAIN sections :
        /\ sections[i].layers.melody = sections[i].layers.full
        /\ sections[i].layers.full # <<>>

ClosedAndFinalSection == pc = "assemble" /\ Len(sections) >= 2

\* occurrences of event r among the score's non-rest elements and in a list
InScore(r) ==
    Cardinality({ij \in (DOMAIN score.elements) \X (1..2) :
        LET el == score.elements[ij[1]]
        IN /\ el.kind # "rest"
           /\ ij[2] <= Len(el.pitches)
           /\ el.pitches[ij[2]] = r.note
           /\ el.offset = r.startBeat
           /\ el.quarterLength = r.durationBeats})
InList(ns, r) == Cardinality({i \in DOMAIN ns : ns[i] = r})
CandidateEvents ==
    {notes[i] : i \in DOMAIN notes}
    \cup {[note |-> p, startBeat |-> el.offset, durationBeats |-> el.quarterLength] :
            p \in {60, 64, 67}, el \in {score.elements[i] : i \in DOMAIN score.elements}}

\* C7: score_to_note_events returns exactly one event per pitch of every
\* non-rest element, with the element's offset and duration, nothing for
\* rests, in ascending (startBeat, pitch) order whatever the element order.
NoteEventsSortedComplete ==
    (Parsed /\ pc \notin {"parse", "extract"}) =>
        /\ \A r \in CandidateEvents : InList(notes, r) = InScore(r)
        /\ \A i \in 1..(Len(notes) - 1) :
              \/ notes[i].startBeat < notes[i + 1].startBeat
              \/ /\ notes[i].startBeat = notes[i + 1].startBeat
                 /\ notes[i].note <= notes[i + 1].note

InterleavedUnorderedScore ==
    /\ pc = "count"
    /\ Len(notes) = 3
    /\ \E i, j, k \in DOMAIN score.elements :
          /\ i < j
          /\ score.elements[i].offset > score.elements[j].offset
          /\ score.elements[i].kind = "chord"
          /\ score.elements[j].kind = "note"
          /\ score.elements[k].kind = "rest"

Window == time_sig[1] * 16

\* sections' startBeat and the closed sections' endBeat lie on the window grid
OnWindowGrid(S, closedUpTo, W) ==
    /\ \A k \in DOMAIN S : S[k].startBeat = (k - 1) * W
    /\ \A k \in 1..closedUpTo : S[k].endBeat = k * W

GridStep ==
    /\ OnWindowGrid(sections', IF pc' = "loop" THEN Len(sections') ELSE Len(sections') - 1,
                    time_sig'[1] * 16)
    /\ (pc = "loop" /\ idx <= Len(notes)) =>
          section_start' \in {section_start, section_start + Window}

\* C8 as stated: the boundary advances by exactly W at a close, at most once
\* per note; section k starts at k*W and every non-final section ends at
\* (k+1)*W; a note that starts more than one window past the current boundary
\* is placed in the immediately following window, index k+1.
WindowSingleAdvance ==
    [][ /\ GridStep
        /\ (pc = "loop" /\ idx <= Len(notes)
              /\ notes[idx].startBeat >= section_start + 2 * Window) =>
                 /\ section_idx' = section_idx + 1
                 /\ current_notes'[Len(current_notes')] = notes[idx] ]_vars

\* C8 amended: as stated, except that a note more than one window past the
\* boundary goes to window k+1 only when the current window already holds a
\* note; while the buffer is empty (the first note) nothing is closed and the
\* note is placed in window 0.
WindowSingleAdvanceNonEmptyBuffer ==
    [][ /\ GridStep
        /\ (pc = "loop" /\ idx <= Len(notes)
              /\ notes[idx].startBeat >= section_start + 2 * Window) =>
                 /\ current_notes'[Len(current_notes')] = notes[idx]
                 /\ IF current_notes # <<>>
                    THEN section_idx' = section_idx + 1
                    ELSE idx = 1 /\ section_idx' = 0 /\ sections' = <<>> ]_vars

FarNoteInFollowingWindow ==
    /\ pc = "loop"
    /\ sections # <<>>
    /\ Len(current_notes) = 1
    /\ current_notes[1].startBeat >= section_start + Window

\* C9: estimate_difficulty returns the level of the score
\* (noteCount / max(lastBeat, 1)) * (tempo / 120), with 0.5, 1.0, 2.0 and 3.0
\* as exclusive upper bounds of levels 1 to 4.
DifficultyByExactScore ==
    Accepted =>
        LET nt == Len(notes) * tempo
            m  == Max(SetMax(NoteEnds(notes)), 1)
        IN result.metadata.difficulty =
              IF 2 * nt < 120 * m THEN 1
              ELSE IF nt < 120 * m THEN 2
              ELSE IF nt < 240 * m THEN 3
              ELSE IF nt < 360 * m THEN 4
              ELSE 5

RECURSIVE FullLayers(_)
FullLayers(S) ==
    IF S = <<>> THEN <<>> ELSE Head(S).layers.full \o FullLayers(Tail(S))

\* C10: split_into_sections neither drops, duplicates nor reorders notes: the
\* sections' layers.full, concatenated in section order, are the input notes
\* (during the loop: the notes consumed so far, with the buffer last).
SectionsPartitionNotes ==
    /\ pc = "loop" => FullLayers(sections) \o current_notes = SubSeq(notes, 1, idx - 1)
    /\ pc = "assemble" => FullLayers(sections) = notes
    /\ Accepted => FullLayers(result.sections) = notes

SeveralSectionsReturned ==
    pc = "assemble" /\ Len(sections) >= 2 /\ Len(notes) >= 5

====
